---- MODULE Spec2Model ----
(***************************************************************************)
(* Resumable batch downloader (secop_download.py): one process at a time   *)
(* runs main() against the files of one dataset/date key: the progress     *)
(* workbook (ledger), the main newline-delimited JSON output, the per-batch *)
(* temporary files and the summary workbook.  The files survive the        *)
(* process; everything else is lost when the process ends or is killed.    *)
(***************************************************************************)
EXTENDS Naturals, Integers, Sequences, FiniteSets, TLC

\* ------------------------------------------------------------------ bounds
\* Largest row count the remote count query answers.
MaxRows == 2
\* Number of invocations of main() in one behaviour.
MaxRuns == 2
\* Number of faults (process kills, I/O exceptions) in one behaviour.
MaxFaults == 1

\* Values of --chunk-size tried.
ChunkSizes == {1, 2}
\* Values of --retries tried.
RetriesTried == {1, 3}
\* Batch indices any ledger or temporary file name can carry.
BatchIds == 0 .. (MaxRows - 1)

\* ------------------------------------------------------- values and files
\* Python's None, as read from an empty worksheet cell.
PyNone == "<None>"
\* An empty cell of the saved workbook.
EmptyCell == "<empty>"
\* The characters the two writers put after a record.
NL == "\n"
BS == "\\"
LetterN == "n"

NoFile == [exists |-> FALSE, data |-> <<>>]
File(d) == [exists |-> TRUE, data |-> d]

\* client.get(dataset_id, limit=limit, offset=offset) answering n records:
\* the rows offset .. offset+n-1 of the remote dataset, in order.
ClientGet(offset, n) == [i \in 1 .. n |-> offset + (i - 1)]

\* pd.Series(rec).to_json(force_ascii=False): the JSON text of one record, a
\* text without a raw newline (JSON escapes it), kept as one token.
ToJson(rec) == ToString(rec)

\* f"{pd.Series(rec).to_json(force_ascii=False)}\n" of the temp file writer:
\* the JSON text followed by a newline character.
TempLine(rec) == <<ToJson(rec), NL>>

\* f"{pd.Series(rec).to_json(force_ascii=False)}\\n" of append_batch_to_main:
\* in an f-string "\\n" is a backslash followed by the letter n.
MainLine(rec) == <<ToJson(rec), BS, LetterN>>

RECURSIVE TempText(_)
TempText(recs) ==
    IF recs = <<>> THEN <<>> ELSE TempLine(Head(recs)) \o TempText(Tail(recs))

RECURSIVE MainText(_)
MainText(recs) ==
    IF recs = <<>> THEN <<>> ELSE MainLine(Head(recs)) \o MainText(Tail(recs))

\* total_batches = (total_rows + chunk_size - 1) // chunk_size
TotalBatchesMutFloor(rows, chunk) == rows \div chunk
TotalBatches(rows, chunk) == (rows + chunk - 1) \div chunk

\* ------------------------------------------------------------ the ledger
Row(b, s, n, e) == [Batch |-> b, Status |-> s, Length |-> n, Error |-> e]

\* ws.append([b, "Pending", 0, ""]) for b in range(total_batches)
NewRowsMutOneBased(total) == [i \in 1 .. total |-> Row(i, "Pending", 0, "")]
NewRows(total) == [i \in 1 .. total |-> Row(i - 1, "Pending", 0, "")]

\* wb.save: openpyxl writes a cell holding "" (or None) as an empty cell.
SaveCellMutDropsText(v) == EmptyCell
SaveCell(v) == IF v = "" \/ v = PyNone THEN EmptyCell ELSE v
SaveWorkbook(rows) ==
    [i \in 1 .. Len(rows) |->
        Row(rows[i].Batch, rows[i].Status, rows[i].Length, SaveCell(rows[i].Error))]

\* openpyxl.load_workbook: an empty cell is read as None.
LoadCell(v) == IF v = EmptyCell THEN PyNone ELSE v
LoadWorkbookMutDropsLast(cells) ==
    [i \in 1 .. (Len(cells) - 1) |->
        Row(cells[i].Batch, cells[i].Status, cells[i].Length, LoadCell(cells[i].Error))]
LoadWorkbook(cells) ==
    [i \in 1 .. Len(cells) |->
        Row(cells[i].Batch, cells[i].Status, cells[i].Length, LoadCell(cells[i].Error))]

\* if status == "Completed": continue
SkipRowMutNever(status) == FALSE
SkipRowMutErrorToo(status) == status # "Pending"
SkipRow(status) == status = "Completed"

\* row[1].value = "Error"; row[2].value = 0; row[3].value = "Failed after retries"
MarkError(rows, i) ==
    [rows EXCEPT ![i] = Row(rows[i].Batch, "Error", 0, "Failed after retries")]

\* row[1].value = "Completed"; row[2].value = len(batch); row[3].value = ""
MarkCompletedMutKeepsError(rows, i, recs) ==
    [rows EXCEPT ![i] = Row(rows[i].Batch, "Completed", Len(recs), rows[i].Error)]
MarkCompleted(rows, i, recs) ==
    [rows EXCEPT ![i] = Row(rows[i].Batch, "Completed", Len(recs), "")]

\* ------------------------------------------------------------ file names
\* Values of --dataset tried.
Datasets == {"jbjy-vk9h", "p6dx-8zbt"}
\* The calendar dates a run can start on, in the order of time.
Calendar == <<[m |-> 11, d |-> 4, y |-> 2026], [m |-> 11, d |-> 5, y |-> 2026]>>
Dates == 1 .. Len(Calendar)
Keys == [dataset : Datasets, date : Dates]

\* datetime.now().strftime("%m%d%Y")
StrfTimeMutNoDay(date) == <<Calendar[date].m, Calendar[date].y>>
StrfTime(date) == <<Calendar[date].m, Calendar[date].d, Calendar[date].y>>

\* out_dir / f"{args.dataset}_{today_str}.json"
JsonName(k) == <<k.dataset, "_", StrfTime(k.date), ".json">>
\* out_dir / f"progress_{args.dataset}_{today_str}.xlsx"
ProgressName(k) == <<"progress_", k.dataset, "_", StrfTime(k.date), ".xlsx">>
\* out_dir / f"summary_{args.dataset}_{today_str}.xlsx"
SummaryName(k) == <<"summary_", k.dataset, "_", StrfTime(k.date), ".xlsx">>
\* out_dir / f"{args.dataset}_batch_{batch_num}_{today_str}.ndjson"
TempName(k, b) == <<k.dataset, "_batch_", b, "_", StrfTime(k.date), ".ndjson">>

\* The names of the files of key k, and every name a run can compute.
NamesOf(k) ==
    {JsonName(k), ProgressName(k), SummaryName(k)} \cup {TempName(k, b) : b \in BatchIds}
AllNames == UNION {NamesOf(k) : k \in Keys}

\* ------------------------------------------------------------------ state
VARIABLES
    progress_xlsx,  \* the ledger file: NoFile or File(rows as saved)
    json_filename,  \* the main output file: NoFile or File(characters)
    temp_fn,        \* batch number -> its temporary file
    summary_xlsx,   \* the summary workbook exists
    chunk_size,     \* --chunk-size, the same in every run of the series
    pc,             \* where the process is; "idle" when there is none
    args,           \* the parsed command line of the running process
    total_rows,
    total_batches,
    attempt,        \* client.get calls made by the last safe_get_* call
    ws,             \* the worksheet rows in memory
    rowIdx,         \* the data row the batch loop is at (sheet row rowIdx+1)
    batch,          \* the records the last fetch returned
    \* history, not read by the program
    runs,           \* invocations of main() so far
    faults,         \* kills and I/O exceptions so far
    startCompleted, \* the run found a ledger with every row Completed
    outcome,        \* batch number -> "none" | "failed" | "fetched", this run
    appended,       \* batch number -> complete appends to the main file, all runs
    committed,      \* batch number -> the records its Completed row was saved for
    \* the dataset id and date of the file names, and the other files
    key,            \* [dataset, date] the files above are named after
    store,          \* file name -> file, for the files of the other keys
    fresh           \* history: the run found no ledger under its names

disk == <<progress_xlsx, json_filename, temp_fn, summary_xlsx>>
memory == <<chunk_size, pc, args, total_rows, total_batches, attempt, ws, rowIdx, batch>>
history == <<runs, faults, startCompleted, outcome, appended, committed>>
dated == <<key, store, fresh>>
vars == <<disk, memory, history, dated>>

Running == {"count", "summary", "load", "ensure", "loop", "fetch", "markError",
            "temp", "append", "save", "unlink"}
Ended == {"idle", "done", "aborted", "crashed"}

\* args = parser.parse_args(): the options that may differ from run to run
\* and that main() reads more than once. --no-summary is read once, where
\* CountReturns reads it; --keep-temp is read where UnlinkTemp reads it;
\* --chunk-size is chunk_size, which a run-series keeps (section 3 of the
\* spec: the batches are those of one chunk size).
NoArgs == [retries |-> 1]
ArgSets == [retries : RetriesTried]

Zeros == [b \in BatchIds |-> 0]
NoOutcome == [b \in BatchIds |-> "none"]

\* Every row of a saved ledger is Completed.
AllCompleted(file) ==
    /\ file.exists
    /\ \A i \in 1 .. Len(file.data) : file.data[i].Status = "Completed"

Init ==
    /\ progress_xlsx = NoFile
    /\ json_filename = NoFile
    /\ temp_fn = [b \in BatchIds |-> NoFile]
    /\ summary_xlsx = FALSE
    /\ chunk_size \in ChunkSizes
    /\ pc = "idle"
    /\ args = NoArgs
    /\ total_rows = 0
    /\ total_batches = 0
    /\ attempt = 0
    /\ ws = <<>>
    /\ rowIdx = 0
    /\ batch = <<>>
    /\ runs = 0
    /\ faults = 0
    /\ startCompleted = FALSE
    /\ outcome = NoOutcome
    /\ appended = Zeros
    /\ committed = [b \in BatchIds |-> <<>>]
    /\ key = [dataset |-> "jbjy-vk9h", date |-> 1]
    /\ store = [n \in {} |-> NoFile]
    /\ fresh = FALSE

\* A process starts main() with a parsed command line; no other is running.
Start(a) ==
    /\ pc \in Ended
    /\ runs < MaxRuns
    /\ pc' = "count"
    /\ args' = a
    /\ UNCHANGED chunk_size
    /\ total_rows' = 0
    /\ total_batches' = 0
    /\ attempt' = 0
    /\ ws' = <<>>
    /\ rowIdx' = 0
    /\ batch' = <<>>
    /\ runs' = runs + 1
    /\ startCompleted' = AllCompleted(progress_xlsx)
    /\ outcome' = NoOutcome
    /\ UNCHANGED <<disk, faults, appended, committed>>
    /\ UNCHANGED dated

\* The directory: every file name a run can compute, with the file under it.
Files ==
    [n \in AllNames |->
        CASE n = ProgressName(key) -> progress_xlsx
          [] n = JsonName(key) -> json_filename
          [] n = SummaryName(key) -> (IF summary_xlsx THEN File(<<>>) ELSE NoFile)
          [] \E b \in BatchIds : n = TempName(key, b) ->
                temp_fn[CHOOSE b \in BatchIds : n = TempName(key, b)]
          [] OTHER -> (IF n \in DOMAIN store THEN store[n] ELSE NoFile)]

\* A process starts main() with --dataset k.dataset on the date k.date, not
\* earlier than the date of the run before: the file names it computes
\* (today_str, json_filename, progress_xlsx, summary_xlsx, temp_fn) are those
\* of k, and the files it finds are the ones the directory has under them.
\* appended and committed tell of the runs since the key last changed.
StartOn(a, k) ==
    /\ pc \in Ended
    /\ runs < MaxRuns
    /\ k.date >= key.date
    /\ key' = k
    /\ progress_xlsx' = Files[ProgressName(k)]
    /\ json_filename' = Files[JsonName(k)]
    /\ temp_fn' = [b \in BatchIds |-> Files[TempName(k, b)]]
    /\ summary_xlsx' = Files[SummaryName(k)].exists
    /\ store' = [n \in {m \in AllNames \ NamesOf(k) : Files[m].exists} |-> Files[n]]
    /\ fresh' = ~Files[ProgressName(k)].exists
    /\ pc' = "count"
    /\ args' = a
    /\ UNCHANGED chunk_size
    /\ total_rows' = 0
    /\ total_batches' = 0
    /\ attempt' = 0
    /\ ws' = <<>>
    /\ rowIdx' = 0
    /\ batch' = <<>>
    /\ runs' = runs + 1
    /\ startCompleted' = AllCompleted(Files[ProgressName(k)])
    /\ outcome' = NoOutcome
    /\ appended' = (IF k = key THEN appended ELSE Zeros)
    /\ committed' = (IF k = key THEN committed ELSE [b \in BatchIds |-> <<>>])
    /\ UNCHANGED faults

\* for attempt in range(retries): the loop ends after the retries-th failure.
ExhaustedMutExtra(n, retries) == n > retries
Exhausted(n, retries) == n >= retries

\* safe_get_count after the last failed attempt: RuntimeError, which nothing
\* in main() catches.
CountFailurePcMutGoesOn == "load"
CountFailurePc == "aborted"

\* safe_get_count: client.get raises, or its answer does not parse.
CountRaises ==
    /\ pc = "count"
    /\ attempt' = attempt + 1
    /\ pc' = IF Exhausted(attempt + 1, args.retries) THEN CountFailurePc ELSE "count"
    /\ UNCHANGED <<disk, chunk_size, args, total_rows, total_batches, ws, rowIdx, batch>>
    /\ UNCHANGED history
    /\ UNCHANGED dated

\* safe_get_count returns int(res[0]["count"]); main computes total_batches.
CountReturns(c, no_summary) ==
    /\ pc = "count"
    /\ total_rows' = c
    /\ total_batches' = TotalBatches(c, chunk_size)
    /\ attempt' = 0
    /\ pc' = IF no_summary THEN "load" ELSE "summary"
    /\ UNCHANGED <<disk, chunk_size, args, ws, rowIdx, batch>>
    /\ UNCHANGED history
    /\ UNCHANGED dated

\* The sample fetch safe_get_records(limit=100, offset=0) raises; after the
\* last attempt it returns None and main logs a warning.
SampleRaises ==
    /\ pc = "summary"
    /\ IF Exhausted(attempt + 1, args.retries)
         THEN attempt' = 0 /\ pc' = "load"
         ELSE attempt' = attempt + 1 /\ pc' = "summary"
    /\ UNCHANGED <<disk, chunk_size, args, total_rows, total_batches, ws, rowIdx, batch>>
    /\ UNCHANGED history
    /\ UNCHANGED dated

\* The sample fetch returns; a non-empty sample is written to the summary.
SampleReturns(nonEmpty) ==
    /\ pc = "summary"
    /\ summary_xlsx' = (summary_xlsx \/ nonEmpty)
    /\ attempt' = 0
    /\ pc' = "load"
    /\ UNCHANGED <<progress_xlsx, json_filename, temp_fn>>
    /\ UNCHANGED <<chunk_size, args, total_rows, total_batches, ws, rowIdx, batch>>
    /\ UNCHANGED history
    /\ UNCHANGED dated

\* load_or_create_progress(str(progress_xlsx), total_batches)
LoadOrCreateProgress ==
    /\ pc = "load"
    /\ IF progress_xlsx.exists
         THEN /\ ws' = LoadWorkbook(progress_xlsx.data)
              /\ UNCHANGED progress_xlsx
         ELSE /\ ws' = NewRows(total_batches)
              /\ progress_xlsx' = File(SaveWorkbook(NewRows(total_batches)))
    /\ pc' = "ensure"
    /\ UNCHANGED <<json_filename, temp_fn, summary_xlsx>>
    /\ UNCHANGED <<chunk_size, args, total_rows, total_batches, attempt, rowIdx, batch>>
    /\ UNCHANGED history
    /\ UNCHANGED dated

\* if not json_filename.exists(): json_filename.write_text("")
EnsuredMutTruncates(file) == File(<<>>)
Ensured(file) == IF file.exists THEN file ELSE File(<<>>)

EnsureMainFile ==
    /\ pc = "ensure"
    /\ json_filename' = Ensured(json_filename)
    /\ rowIdx' = 1
    /\ pc' = "loop"
    /\ UNCHANGED <<progress_xlsx, temp_fn, summary_xlsx>>
    /\ UNCHANGED <<chunk_size, args, total_rows, total_batches, attempt, ws, batch>>
    /\ UNCHANGED history
    /\ UNCHANGED dated

\* The process is gone: what it held in memory is lost (and with it what the
\* history tells of the run), the files stay.
Gone(how) ==
    /\ pc' = how
    /\ args' = NoArgs
    /\ UNCHANGED chunk_size
    /\ total_rows' = 0
    /\ total_batches' = 0
    /\ attempt' = 0
    /\ ws' = <<>>
    /\ rowIdx' = 0
    /\ batch' = <<>>
    /\ startCompleted' = FALSE
    /\ outcome' = NoOutcome
    /\ UNCHANGED dated

\* The batch loop has no row left: the run is at its end.
LoopUsedUp == pc = "loop" /\ rowIdx > total_batches

\* ws.iter_rows(min_row=2, max_row=1 + total_batches) is used up: main logs
\* and returns.
LoopDone ==
    /\ LoopUsedUp
    /\ Gone("done")
    /\ UNCHANGED <<disk, runs, faults, appended, committed>>

\* A sheet row past the last saved one: iter_rows yields empty cells, status
\* None is not "Completed", and int(batch_num) raises TypeError, uncaught.
LoopPastLastRow ==
    /\ pc = "loop"
    /\ rowIdx <= total_batches
    /\ rowIdx > Len(ws)
    /\ Gone("crashed")
    /\ UNCHANGED <<disk, runs, faults, appended, committed>>

\* if status == "Completed": continue
LoopSkip ==
    /\ pc = "loop"
    /\ rowIdx <= total_batches
    /\ rowIdx <= Len(ws)
    /\ SkipRow(ws[rowIdx].Status)
    /\ rowIdx' = rowIdx + 1
    /\ UNCHANGED <<disk, pc, chunk_size, args, total_rows, total_batches, attempt, ws, batch>>
    /\ UNCHANGED history
    /\ UNCHANGED dated

\* The row is not Completed: offset is computed and the fetch begins.
LoopProcess ==
    /\ pc = "loop"
    /\ rowIdx <= total_batches
    /\ rowIdx <= Len(ws)
    /\ ~SkipRow(ws[rowIdx].Status)
    /\ attempt' = 0
    /\ pc' = "fetch"
    /\ UNCHANGED <<disk, chunk_size, args, total_rows, total_batches, ws, rowIdx, batch>>
    /\ UNCHANGED history
    /\ UNCHANGED dated

\* The order of the statements after a successful fetch: the temp file is
\* written, then the batch appended to the main file, then the row marked
\* Completed and the workbook saved, then the temp file removed.
PcAfterMutSaveFirst(p) ==
    CASE p = "temp" -> "save"
      [] p = "save" -> "append"
      [] p = "append" -> "unlink"
PcAfter(p) ==
    CASE p = "temp" -> "append"
      [] p = "append" -> "save"
      [] p = "save" -> "unlink"

\* wb.save(str(progress_xlsx)) of the error branch.
ErrorSaveMutSkipped(file, rows) == file
ErrorSave(file, rows) == File(SaveWorkbook(rows))

\* batch_num = row[0].value of the row the loop is at.
BatchNum == ws[rowIdx].Batch
\* offset = int(batch_num) * chunk_size
OffsetMutOneBased(b) == (b + 1) * chunk_size
Offset(b) == b * chunk_size
\* The rows asked for by safe_get_records(limit=args.chunk_size, offset=offset)
\* for batch b.
RequestedRange(b) == Offset(b) .. (Offset(b) + chunk_size - 1)

\* safe_get_records: client.get raises; after the last attempt it returns None.
FetchRaises ==
    /\ pc = "fetch"
    /\ attempt' = attempt + 1
    /\ IF Exhausted(attempt + 1, args.retries)
         THEN /\ pc' = "markError"
              /\ outcome' = [outcome EXCEPT ![BatchNum] = "failed"]
         ELSE /\ pc' = "fetch"
              /\ outcome' = [outcome EXCEPT ![BatchNum] = "trying"]
    /\ UNCHANGED <<disk, chunk_size, args, total_rows, total_batches, ws, rowIdx, batch>>
    /\ UNCHANGED <<runs, faults, startCompleted, appended, committed>>
    /\ UNCHANGED dated

\* if batch is None: a list that client.get answered, empty or not, is not
\* None, and the loop body goes on to the temp file.
PcOnReturnMutFalsy(recs) == IF recs = <<>> THEN "markError" ELSE "temp"
PcOnReturn(recs) == "temp"

\* safe_get_records returns what client.get answered: n records, n <= limit.
FetchReturns(n) ==
    /\ pc = "fetch"
    /\ attempt' = attempt + 1
    /\ outcome' = [outcome EXCEPT ![BatchNum] = "fetched"]
    /\ batch' = ClientGet(Offset(BatchNum), n)
    /\ pc' = PcOnReturn(ClientGet(Offset(BatchNum), n))
    /\ UNCHANGED <<disk, chunk_size, args, total_rows, total_batches, ws, rowIdx>>
    /\ UNCHANGED <<runs, faults, startCompleted, appended, committed>>
    /\ UNCHANGED dated

\* batch is None: the row is marked Error, the workbook saved, continue.
SaveError ==
    /\ pc = "markError"
    /\ ws' = MarkError(ws, rowIdx)
    /\ progress_xlsx' = ErrorSave(progress_xlsx, MarkError(ws, rowIdx))
    /\ attempt' = 0
    /\ rowIdx' = rowIdx + 1
    /\ pc' = "loop"
    /\ UNCHANGED <<json_filename, temp_fn, summary_xlsx>>
    /\ UNCHANGED <<chunk_size, args, total_rows, total_batches, batch>>
    /\ UNCHANGED history
    /\ UNCHANGED dated

\* with open(temp_fn, "w") as tf: one line per record.
WriteTemp ==
    /\ pc = "temp"
    /\ temp_fn' = [temp_fn EXCEPT ![BatchNum] = File(TempText(batch))]
    /\ attempt' = 0
    /\ pc' = PcAfter("temp")
    /\ UNCHANGED <<progress_xlsx, json_filename, summary_xlsx>>
    /\ UNCHANGED <<chunk_size, args, total_rows, total_batches, ws, rowIdx, batch>>
    /\ UNCHANGED history
    /\ UNCHANGED dated

\* append_batch_to_main(str(json_filename), batch)
AppendBatchToMain ==
    /\ pc = "append"
    /\ json_filename' = File(json_filename.data \o MainText(batch))
    /\ appended' = [appended EXCEPT ![BatchNum] = IF batch = <<>> THEN @ ELSE @ + 1]
    /\ pc' = PcAfter("append")
    /\ UNCHANGED <<progress_xlsx, temp_fn, summary_xlsx>>
    /\ UNCHANGED <<chunk_size, args, total_rows, total_batches, attempt, ws, rowIdx, batch>>
    /\ UNCHANGED <<runs, faults, startCompleted, outcome, committed>>
    /\ UNCHANGED dated

\* The row is marked Completed and the workbook saved.
SaveCompleted ==
    /\ pc = "save"
    /\ ws' = MarkCompleted(ws, rowIdx, batch)
    /\ progress_xlsx' = File(SaveWorkbook(MarkCompleted(ws, rowIdx, batch)))
    /\ committed' = [committed EXCEPT ![BatchNum] = batch]
    /\ pc' = PcAfter("save")
    /\ UNCHANGED <<json_filename, temp_fn, summary_xlsx>>
    /\ UNCHANGED <<chunk_size, args, total_rows, total_batches, attempt, rowIdx, batch>>
    /\ UNCHANGED <<runs, faults, startCompleted, outcome, appended>>
    /\ UNCHANGED dated

\* if not args.keep_temp: try: temp_fn.unlink() except Exception: pass.
\* The temp file is kept when --keep-temp is given and when unlink() raises,
\* which is swallowed; the loop goes to the next row (batch is not read
\* again before the next fetch assigns it).
UnlinkTemp(kept) ==
    /\ pc = "unlink"
    /\ temp_fn' = IF kept THEN temp_fn
                  ELSE [temp_fn EXCEPT ![BatchNum] = NoFile]
    /\ batch' = <<>>
    /\ rowIdx' = rowIdx + 1
    /\ pc' = "loop"
    /\ UNCHANGED <<progress_xlsx, json_filename, summary_xlsx>>
    /\ UNCHANGED <<chunk_size, args, total_rows, total_batches, attempt, ws>>
    /\ UNCHANGED history
    /\ UNCHANGED dated

\* -------------------------------------------------------- the environment
\* The process is killed: what it held in memory is lost, the files stay.
Killed ==
    /\ faults < MaxFaults
    /\ faults' = faults + 1
    /\ Gone("idle")
    /\ UNCHANGED <<runs, appended, committed>>

\* The process is killed between two statements.
Kill ==
    /\ pc \in Running
    /\ Killed
    /\ UNCHANGED disk

\* The process is killed inside the temp file's write loop: the file was
\* opened with "w" and holds the first k characters of the batch's text.
KillInWriteTemp(k) ==
    /\ pc = "temp"
    /\ temp_fn' = [temp_fn EXCEPT ![BatchNum] = File(SubSeq(TempText(batch), 1, k))]
    /\ Killed
    /\ UNCHANGED <<progress_xlsx, json_filename, summary_xlsx>>

\* The process is killed inside append_batch_to_main's write loop: the main
\* file has grown by the first k characters of the batch's text.
KillInAppend(k) ==
    /\ pc = "append"
    /\ json_filename' = File(json_filename.data \o SubSeq(MainText(batch), 1, k))
    /\ Killed
    /\ UNCHANGED <<progress_xlsx, temp_fn, summary_xlsx>>

\* open() or write() of the temp file, open() or write() of the main file,
\* or wb.save() raises (disk full, permissions): nothing in the batch loop
\* catches it, and main() ends with the exception.
Raised ==
    /\ faults < MaxFaults
    /\ faults' = faults + 1
    /\ Gone("crashed")
    /\ UNCHANGED <<disk, runs, appended, committed>>

WriteTempRaises == pc = "temp" /\ Raised

AppendRaises == pc = "append" /\ Raised

SaveRaises == pc \in {"markError", "save"} /\ Raised

Next ==
    \/ \E a \in ArgSets : Start(a)
    \/ CountRaises
    \/ \E c \in 0 .. MaxRows, no_summary \in BOOLEAN : CountReturns(c, no_summary)
    \/ SampleRaises
    \/ \E nonEmpty \in BOOLEAN : SampleReturns(nonEmpty)
    \/ LoadOrCreateProgress
    \/ EnsureMainFile
    \/ LoopDone
    \/ LoopPastLastRow
    \/ LoopSkip
    \/ LoopProcess
    \/ FetchRaises
    \/ \E n \in 0 .. chunk_size : FetchReturns(n)
    \/ SaveError
    \/ WriteTemp
    \/ AppendBatchToMain
    \/ SaveCompleted
    \/ \E kept \in BOOLEAN : UnlinkTemp(kept)
    \/ Kill
    \/ \E k \in 0 .. (Len(TempText(batch)) - 1) : KillInWriteTemp(k)
    \/ \E k \in 1 .. (Len(MainText(batch)) - 1) : KillInAppend(k)
    \/ WriteTempRaises
    \/ AppendRaises
    \/ SaveRaises

Spec == Init /\ [][Next]_vars

\* ------------------------------------------------------- reading the files
\* The saved row of batch b, if the ledger has one.
HasRow(b) == progress_xlsx.exists /\ b + 1 <= Len(progress_xlsx.data)
SavedRow(b) == progress_xlsx.data[b + 1]

\* part occurs in text as a run of consecutive characters.
Contains(text, part) ==
    \E i \in 0 .. (Len(text) - Len(part)) : SubSeq(text, i + 1, i + Len(part)) = part

IsPrefix(a, b) == Len(a) <= Len(b) /\ SubSeq(b, 1, Len(a)) = a

\* The lines a reader of newline-delimited text finds: one per newline
\* character, and one more for text after the last newline.
LineCount(text) ==
    Cardinality({i \in 1 .. Len(text) : text[i] = NL})
        + (IF text # <<>> /\ text[Len(text)] # NL THEN 1 ELSE 0)

\* The sum of Length over the Completed rows.
RECURSIVE CompletedLength(_)
CompletedLength(rows) ==
    IF rows = <<>> THEN 0
    ELSE (IF Head(rows).Status = "Completed" THEN Head(rows).Length ELSE 0)
            + CompletedLength(Tail(rows))

\* The run ends by itself with this step: main() returns or an exception
\* leaves it.
RunEnds == pc \in Running /\ pc' \in {"done", "crashed"}

\* Batch b was not Completed in the ledger the run loaded (or had no row).
NotCompletedAtLoad(b) ==
    \/ ~HasRow(b)
    \/ outcome[b] # "none"
    \/ SavedRow(b).Status # "Completed"

\* ------------------------------------------------------------------ claims

\* C1 as stated: a run that finds a ledger with rows, every one Completed, issues
\* no client.get with limit/offset at all (neither the sample fetch nor a
\* batch fetch) and leaves the Output Stream file as it is.
C1_NoFetchAtAll ==
    [][(startCompleted /\ progress_xlsx.data # <<>> /\ pc \in Running)
         => (/\ ~(pc = "summary" /\ pc' \in {"summary", "load"})
             /\ outcome' = NoOutcome
             /\ json_filename' = json_filename)]_vars

\* C1 amended: a run that finds a ledger with every row Completed issues no
\* batch fetch (the sample fetch of limit=100, offset=0 is still issued unless
\* --no-summary is given) and leaves the content of the Output Stream as it
\* is (a missing file, left by a ledger of no rows, is created empty).
C1_IdempotentResume ==
    [][(startCompleted /\ pc \in Running)
         => (/\ outcome' = NoOutcome
             /\ pc' \notin {"fetch", "temp", "append", "save", "markError", "unlink"}
             /\ json_filename'.data = json_filename.data
             /\ (json_filename.exists => json_filename' = json_filename))]_vars

\* C1 witness: a run that found two Completed rows and a non-empty output
\* has walked the whole ledger.
C1_Witness ==
    /\ startCompleted
    /\ LoopUsedUp
    /\ total_batches = 2
    /\ Len(ws) = 2
    /\ json_filename.data # <<>>

\* C2 as stated: when a run ends, every batch k whose fetch failed on every
\* attempt has the saved row (k, Error, 0, non-empty message), and every
\* batch after k that was not Completed at load was fetched in this run and,
\* if its fetch succeeded, has a saved Completed row.
C2_Isolation ==
    [][RunEnds =>
        \A k \in BatchIds : (k < total_batches /\ outcome[k] = "failed") =>
            /\ HasRow(k)
            /\ SavedRow(k).Status = "Error"
            /\ SavedRow(k).Length = 0
            /\ SavedRow(k).Error \notin {"", EmptyCell}
            /\ \A b \in BatchIds : (k < b /\ b < total_batches /\ NotCompletedAtLoad(b)) =>
                  /\ outcome[b] \in {"failed", "fetched"}
                  /\ (outcome[b] = "fetched" =>
                        HasRow(b) /\ SavedRow(b).Status = "Completed")]_vars

\* C3 as stated: at the end of a run the Output Stream has as many lines as
\* the Completed rows' Length add up to, and no step lowers its line count.
C3_LineCount ==
    /\ [](LoopUsedUp =>
            LineCount(json_filename.data) = CompletedLength(progress_xlsx.data))
    /\ [][LineCount(json_filename'.data) >= LineCount(json_filename.data)]_vars

\* C4 as stated: over all runs, kills included, the records of a batch are
\* appended to the Output Stream at most once, and only by a run whose fetch
\* of the batch succeeded.
C4_ExactlyOnce ==
    /\ [](\A b \in BatchIds : appended[b] <= 1)
    /\ [][\A b \in BatchIds : appended'[b] # appended[b] =>
             (pc = "append" /\ b = BatchNum /\ outcome[b] = "fetched")]_vars

\* C5: whenever the saved row of batch b is Completed, the text of the records
\* fetched for b is in the Output Stream, and the row's Length is their number.
C5_CommitOrdering ==
    \A b \in BatchIds : (HasRow(b) /\ SavedRow(b).Status = "Completed") =>
        /\ Contains(json_filename.data, MainText(committed[b]))
        /\ SavedRow(b).Length = Len(committed[b])

\* C5 witness: after a kill, a saved Completed row of two records.
C5_Witness ==
    /\ faults = 1
    /\ pc = "idle"
    /\ \E b \in BatchIds :
          HasRow(b) /\ SavedRow(b).Status = "Completed" /\ SavedRow(b).Length = 2

\* The statements of the batch loop.
InLoop == {"loop", "fetch", "markError", "temp", "append", "save", "unlink"}

C7_AtomicAppend ==
    /\ [](pc = "append" => temp_fn[BatchNum] = File(TempText(batch)))
    /\ [][(pc = "append" /\ pc' = "idle") =>
            \/ json_filename'.data = json_filename.data
            \/ json_filename'.data = json_filename.data \o MainText(batch)]_vars

\* C8: safe_get_records makes another attempt only while fewer than retries
\* were made; it returns at the first success, after j <= retries calls; after
\* retries failures it returns None, and the batch's row is saved as Error.
C8_RetryCount ==
    /\ [](pc = "fetch" => attempt < args.retries)
    /\ [](pc = "temp" => (attempt \in 1 .. args.retries /\ outcome[BatchNum] = "fetched"))
    /\ [](pc = "markError" => (attempt = args.retries /\ outcome[BatchNum] = "failed"))
    /\ [][pc = "fetch" =>
            \/ pc' \in {"fetch", "temp", "markError"} /\ attempt' = attempt + 1
            \/ (pc' = "idle")]_vars
    /\ [][(pc = "markError" /\ pc' = "loop") =>
            (progress_xlsx'.data[rowIdx].Status = "Error")]_vars

\* C8 witness: with retries=3 the third failure has ended the fetch.
C8_Witness ==
    /\ pc = "markError"
    /\ args.retries = 3
    /\ attempt = 3

\* C9: while the count is being fetched no file changes; the retries-th
\* failure aborts the run, with no sample or batch fetch issued and no batch
\* plan, and nothing follows in that run.
C9_FatalCount ==
    /\ [][pc = "count" =>
            /\ disk' = disk
            /\ pc' \in {"count", "aborted", "summary", "load", "idle"}
            /\ (attempt' = args.retries => pc' = "aborted")
            /\ (pc' = "aborted" => attempt' = args.retries)]_vars
    /\ [](pc = "aborted" =>
            (outcome = NoOutcome /\ ws = <<>> /\ total_batches = 0))
    /\ [][pc = "aborted" => (pc' = "count")]_vars

\* C9 witness: a run with retries=3 has aborted beside the ledger and output
\* of an earlier run.
C9_Witness ==
    /\ pc = "aborted"
    /\ args.retries = 3
    /\ attempt = 3
    /\ progress_xlsx.exists
    /\ json_filename.data # <<>>

\* C10 as stated: once the count is obtained, nothing that fails inside the
\* batch loop ends the run with an exception.
C10_OnlyCountAborts ==
    [][(pc \in InLoop) => ~(pc' = "crashed")]_vars

\* n is the ceiling of rows / chunk: the least n with n * chunk >= rows.
IsCeil(n, rows, chunk) ==
    /\ n * chunk >= rows
    /\ (n = 0 \/ (n - 1) * chunk < rows)

\* The statements of main() after the count has been obtained.
AfterCount == Running \ {"count"}

\* C11: total_batches is the ceiling of total_rows / chunk_size (3 for 125000
\* rows in chunks of 50000); with total_rows = 0 it is 0, the ledger the run
\* creates has no batch row, no batch is fetched and the loop ends at once.
C11_BatchMath ==
    /\ [](TotalBatches(125000, 50000) = 3)
    /\ [](pc \in AfterCount =>
            /\ IsCeil(total_batches, total_rows, chunk_size)
            /\ (total_rows = 0 => total_batches = 0))
    /\ []((pc \in AfterCount /\ total_rows = 0) =>
            pc \notin {"fetch", "markError", "temp", "append", "save", "unlink"})
    /\ [][(pc = "load" /\ total_rows = 0 /\ ~progress_xlsx.exists /\ pc' = "ensure") =>
            (progress_xlsx' = File(<<>>) /\ ws' = <<>>)]_vars
    /\ [][(pc = "loop" /\ total_rows = 0) => (pc' \in {"done", "idle"})]_vars

\* C11 witness: a first run over a dataset of no rows is at the end of its
\* loop with an empty ledger and an empty output.
C11_Witness ==
    /\ runs = 1
    /\ LoopUsedUp
    /\ total_rows = 0
    /\ progress_xlsx = File(<<>>)
    /\ json_filename = File(<<>>)

\* Newline-delimited text of records: each record's JSON text and a newline.
RECURSIVE OnePerLine(_)
OnePerLine(recs) ==
    IF recs = <<>> THEN <<>>
    ELSE <<ToJson(Head(recs)), NL>> \o OnePerLine(Tail(recs))

\* The records of the batches 0 .. n-1 that were saved as Completed, one per
\* line, in ascending batch order and in fetch order within a batch.
RECURSIVE CompletedLines(_)
CompletedLines(n) ==
    IF n = 0 THEN <<>> ELSE CompletedLines(n - 1) \o OnePerLine(committed[n - 1])

RECURSIVE CompletedRecords(_)
CompletedRecords(n) ==
    IF n = 0 THEN 0 ELSE CompletedRecords(n - 1) + Len(committed[n - 1])

\* C12 as stated: at the end of a first run that no fault disturbed, the saved
\* ledger has exactly the rows 0 .. total_batches-1 in order, (b, Error, 0,
\* message) for the batches that failed and (b, Completed, records fetched,
\* empty) for the others, and the Output Stream is the records of the
\* successful batches, one per line, in batch order.
C12_FreshRunFinalState ==
    (runs = 1 /\ faults = 0 /\ LoopUsedUp) =>
        /\ progress_xlsx.exists
        /\ Len(progress_xlsx.data) = total_batches
        /\ \A b \in 0 .. (total_batches - 1) :
              /\ outcome[b] \in {"failed", "fetched"}
              /\ outcome[b] = "failed" =>
                    SavedRow(b) = Row(b, "Error", 0, "Failed after retries")
              /\ outcome[b] = "fetched" =>
                    SavedRow(b) = Row(b, "Completed", Len(committed[b]), EmptyCell)
        /\ json_filename.data = CompletedLines(total_batches)
        /\ LineCount(json_filename.data) = CompletedRecords(total_batches)

\* The loop is at a row of the worksheet that iter_rows yields.
AtRow == pc = "loop" /\ rowIdx <= total_batches /\ rowIdx <= Len(ws)

\* C13: the loop walks the rows in ascending order, one batch at a time; a
\* row it has not reached yet is as it was loaded; at a row it skips when the
\* status is Completed and begins a fetch otherwise (Pending or Error), for a
\* batch not fetched before in the run and with a higher index than every
\* batch fetched so far, and only when the outcome of the row before is on
\* disk; at the end of the loop every batch not fetched is Completed.
C13_PendingOrder ==
    /\ [][(pc \in ({"ensure"} \cup InLoop) /\ pc' \in InLoop) =>
            /\ rowIdx' \in {rowIdx, rowIdx + 1}
            /\ Len(ws') = Len(ws)
            /\ \A i \in 1 .. Len(ws) : i > rowIdx => ws'[i] = ws[i]]_vars
    /\ [][AtRow =>
            IF ws[rowIdx].Status = "Completed"
              THEN /\ pc' \in {"loop", "idle"}
                   /\ pc' = "loop" => (rowIdx' = rowIdx + 1 /\ outcome' = outcome)
              ELSE /\ pc' \in {"fetch", "idle"}
                   /\ pc' = "fetch" => rowIdx' = rowIdx]_vars
    /\ [][(pc = "loop" /\ pc' = "fetch") =>
            /\ BatchNum = rowIdx - 1
            /\ outcome[BatchNum] = "none"
            /\ \A b \in BatchIds : outcome[b] # "none" =>
                  /\ b < BatchNum
                  /\ outcome[b] \in {"failed", "fetched"}
            /\ progress_xlsx.data = SaveWorkbook(ws)
            /\ (rowIdx > 1 /\ outcome[BatchNum - 1] = "failed") =>
                  SavedRow(BatchNum - 1).Status = "Error"
            /\ (rowIdx > 1 /\ outcome[BatchNum - 1] = "fetched") =>
                  SavedRow(BatchNum - 1).Status = "Completed"]_vars
    /\ [](pc \in {"fetch", "markError", "temp", "append", "save", "unlink"} =>
            \A b \in BatchIds : outcome[b] \in {"trying", "none"} \/ b <= BatchNum)
    /\ [](LoopUsedUp =>
            \A b \in 0 .. (total_batches - 1) :
                /\ HasRow(b)
                /\ outcome[b] = "none" => SavedRow(b).Status = "Completed")

\* C13 witness: a second run has skipped the Completed batch 0 and is
\* fetching batch 1, which the run before left as Error.
C13_Witness ==
    /\ runs = 2
    /\ pc = "fetch"
    /\ BatchNum = 1
    /\ SavedRow(0).Status = "Completed"
    /\ SavedRow(1).Status = "Error"
    /\ outcome[0] = "none"

\* C14: load_or_create_progress, when it returns, has fetched no batch; with
\* no file at the path it has made the rows (b, Pending, 0, "") for b in
\* 0 .. total_batches-1 and saved them; with a file at the path it has left
\* the file alone and returned as many rows as the file holds, whatever
\* total_batches is, each with the file's Batch, Status, Length and Error
\* (an empty Error cell read as None).
C14_LoadOrCreate ==
    [][(pc = "load" /\ pc' # "idle") =>
        /\ pc' = "ensure"
        /\ outcome' = NoOutcome
        /\ IF ~progress_xlsx.exists
             THEN /\ Len(ws') = total_batches
                  /\ \A i \in 1 .. total_batches :
                        ws'[i] = Row(i - 1, "Pending", 0, "")
                  /\ progress_xlsx'.exists
                  /\ Len(progress_xlsx'.data) = total_batches
                  /\ \A i \in 1 .. total_batches :
                        progress_xlsx'.data[i] = Row(i - 1, "Pending", 0, EmptyCell)
             ELSE /\ progress_xlsx' = progress_xlsx
                  /\ Len(ws') = Len(progress_xlsx.data)
                  /\ \A i \in 1 .. Len(progress_xlsx.data) :
                        /\ ws'[i].Batch = progress_xlsx.data[i].Batch
                        /\ ws'[i].Status = progress_xlsx.data[i].Status
                        /\ ws'[i].Length = progress_xlsx.data[i].Length
                        /\ progress_xlsx.data[i].Error # EmptyCell =>
                              ws'[i].Error = progress_xlsx.data[i].Error
                        /\ progress_xlsx.data[i].Error = EmptyCell =>
                              ws'[i].Error = PyNone]_vars

\* C14 witness: a second run, whose count gives one batch, has loaded the
\* two rows the first run saved.
C14_Witness ==
    /\ runs = 2
    /\ pc = "ensure"
    /\ total_batches = 1
    /\ Len(ws) = 2
    /\ ws[1].Status = "Completed"
    /\ ws[2].Status = "Error"
    /\ ws[2].Error = "Failed after retries"

\* C15: no step removes the Output Stream or changes what it already holds:
\* its content before a step is a prefix of its content after it (so the
\* content at any earlier moment is a prefix of the content at any later
\* one, within a run and across runs), and it comes into existence empty.
C15_AppendOnly ==
    [][/\ IsPrefix(json_filename.data, json_filename'.data)
       /\ json_filename.exists => json_filename'.exists
       /\ (~json_filename.exists /\ json_filename'.exists) =>
             (pc = "ensure" /\ json_filename'.data = <<>>)]_vars

\* C15 witness: a second run has appended batch 1 after the records the
\* first run wrote for batch 0.
C15_Witness ==
    /\ runs = 2
    /\ pc = "save"
    /\ BatchNum = 1
    /\ batch # <<>>
    /\ committed[0] # <<>>
    /\ json_filename.data = MainText(committed[0]) \o MainText(batch)

\* The file holds the workbook in memory as wb.save wrote it.
JustSaved == pc \in InLoop /\ progress_xlsx.data = SaveWorkbook(ws)

C17_RowInvariant ==
    /\ [](\A i \in 1 .. Len(progress_xlsx.data) :
            /\ progress_xlsx.data[i].Status \in {"Pending", "Completed", "Error"}
            /\ progress_xlsx.data[i].Status # "Completed" =>
                  progress_xlsx.data[i].Length = 0
            /\ progress_xlsx.data[i].Status # "Error" =>
                  progress_xlsx.data[i].Error = EmptyCell
            /\ progress_xlsx.data[i].Status = "Error" =>
                  progress_xlsx.data[i].Error \notin {EmptyCell, ""})
    /\ [][(pc = "save" /\ pc' = "unlink") =>
            /\ progress_xlsx'.data[rowIdx] =
                  Row(BatchNum, "Completed", Len(batch), EmptyCell)
            /\ ws'[rowIdx] = Row(BatchNum, "Completed", Len(batch), "")]_vars
    /\ [][(pc = "markError" /\ pc' = "loop") =>
            /\ progress_xlsx'.data[rowIdx].Status = "Error"
            /\ progress_xlsx'.data[rowIdx].Length = 0
            /\ ws'[rowIdx].Length = 0]_vars

\* C17 witness: a second run has saved batch 0 as Completed with one record;
\* the first run had left both batches as Error.
C17_Witness ==
    /\ runs = 2
    /\ pc = "unlink"
    /\ BatchNum = 0
    /\ SavedRow(0) = Row(0, "Completed", 1, EmptyCell)
    /\ HasRow(1)
    /\ SavedRow(1).Status = "Error"

\* C18: once the ledger file exists, no step removes it, changes the number
\* of its rows or changes a row's batch index, and the indices are 0 .. n-1
\* in order; the worksheet in memory has the same rows as the file has, and
\* a batch is processed only for a row among the first total_batches rows
\* that the ledger does have.
C18_NeverResized ==
    /\ [][progress_xlsx.exists =>
            /\ progress_xlsx'.exists
            /\ Len(progress_xlsx'.data) = Len(progress_xlsx.data)
            /\ \A i \in 1 .. Len(progress_xlsx.data) :
                  progress_xlsx'.data[i].Batch = progress_xlsx.data[i].Batch]_vars
    /\ [](\A i \in 1 .. Len(progress_xlsx.data) : progress_xlsx.data[i].Batch = i - 1)
    /\ [](pc \in InLoop => Len(ws) = Len(progress_xlsx.data))
    /\ [](pc \in (InLoop \ {"loop"}) => (rowIdx <= total_batches /\ rowIdx <= Len(ws)))

\* C18 witness: a second run, whose count gives two batches, has processed
\* the only row of the ledger and stands at the sheet row after it.
C18_Witness ==
    /\ runs = 2
    /\ pc = "loop"
    /\ rowIdx = 2
    /\ total_batches = 2
    /\ Len(progress_xlsx.data) = 1
    /\ outcome[0] = "fetched"

\* C19: a fetch is made for the batch of the row the loop is at, one of
\* 0 .. total_batches-1, and asks for chunk_size rows from b * chunk_size on;
\* what it returns lies in that range; the ranges of the batches
\* 0 .. total_batches-1 are pairwise disjoint and every row offset in
\* [0, total_rows) is in exactly one of them; when the loop ends with every
\* batch Completed, the records kept for each batch lie in its range.
C19_OffsetsPartition ==
    /\ [](pc = "fetch" =>
            /\ BatchNum = rowIdx - 1
            /\ BatchNum < total_batches
            /\ RequestedRange(BatchNum) =
                  (BatchNum * chunk_size) .. (BatchNum * chunk_size + chunk_size - 1))
    /\ [][(pc = "fetch" /\ pc' = "temp") =>
            /\ Len(batch') <= chunk_size
            /\ \A i \in 1 .. Len(batch') : batch'[i] \in RequestedRange(BatchNum)]_vars
    /\ [](pc \in AfterCount =>
            /\ \A b1, b2 \in 0 .. (total_batches - 1) :
                  b1 # b2 => RequestedRange(b1) \cap RequestedRange(b2) = {}
            /\ \A r \in 0 .. (total_rows - 1) :
                  Cardinality({b \in 0 .. (total_batches - 1) :
                                  r \in RequestedRange(b)}) = 1)
    /\ []((LoopUsedUp /\ AllCompleted(progress_xlsx)
             /\ Len(progress_xlsx.data) = total_batches) =>
            \A b \in 0 .. (total_batches - 1) :
                \A i \in 1 .. Len(committed[b]) :
                    committed[b][i] \in RequestedRange(b))

\* C19 witness: two rows in chunks of one: both batches are Completed, with
\* row 0 fetched for batch 0 and row 1 for batch 1.
C19_Witness ==
    /\ LoopUsedUp
    /\ AllCompleted(progress_xlsx)
    /\ total_rows = 2
    /\ chunk_size = 1
    /\ Len(progress_xlsx.data) = 2
    /\ committed[0] = <<0>>
    /\ committed[1] = <<1>>

\* C20: a fetch that returns an empty sequence takes the path of a
\* successful fetch; the append of an empty batch leaves the Output Stream as
\* it is; its row is saved as (b, Completed, 0, empty); a saved Completed row
\* of Length 0 stays as it is, and no fetch is made for a batch whose saved
\* row is Completed.
C20_EmptyBatch ==
    /\ [][(pc = "fetch" /\ outcome'[BatchNum] = "fetched" /\ batch' = <<>>) =>
            (pc' = "temp")]_vars
    /\ []((pc \in {"temp", "append", "save"} /\ batch = <<>>) =>
            outcome[BatchNum] = "fetched")
    /\ [][(pc = "append" /\ batch = <<>>) =>
            (json_filename'.data = json_filename.data)]_vars
    /\ [][(pc = "save" /\ batch = <<>> /\ pc' = "unlink") =>
            /\ progress_xlsx'.data[rowIdx] = Row(BatchNum, "Completed", 0, EmptyCell)
            /\ json_filename' = json_filename]_vars
    /\ [][\A i \in 1 .. Len(progress_xlsx.data) :
            (progress_xlsx.data[i].Status = "Completed"
               /\ progress_xlsx.data[i].Length = 0) =>
                  progress_xlsx'.data[i] = progress_xlsx.data[i]]_vars
    /\ [][(pc' = "fetch") => (SavedRow(BatchNum').Status # "Completed")]_vars

\* C20 witness: a second run has walked past batch 0, which the first run
\* saved as Completed with no record, without fetching it.
C20_Witness ==
    /\ runs = 2
    /\ LoopUsedUp
    /\ total_batches >= 1
    /\ SavedRow(0) = Row(0, "Completed", 0, EmptyCell)
    /\ committed[0] = <<>>
    /\ outcome[0] = "none"
    /\ appended[0] = 0

\* The changes of a saved row's status that are ever written.
StatusSteps ==
    {<<"Pending", "Completed">>, <<"Pending", "Error">>,
     <<"Error", "Error">>, <<"Error", "Completed">>}

\* C21: no step changes a saved row that is Completed, in any field; a saved
\* row's status either stays or goes Pending -> Completed, Pending -> Error
\* or Error -> Completed (Error -> Error when the batch fails again), never
\* to Pending.
C21_CompletedAbsorbing ==
    [][progress_xlsx.exists =>
        \A i \in 1 .. Len(progress_xlsx.data) :
            /\ i <= Len(progress_xlsx'.data)
            /\ progress_xlsx.data[i].Status = "Completed" =>
                  progress_xlsx'.data[i] = progress_xlsx.data[i]
            /\ \/ progress_xlsx'.data[i].Status = progress_xlsx.data[i].Status
               \/ <<progress_xlsx.data[i].Status, progress_xlsx'.data[i].Status>>
                     \in StatusSteps
            /\ progress_xlsx.data[i].Status # "Pending" =>
                  progress_xlsx'.data[i].Status # "Pending"]_vars

\* C21 witness: a second run has ended its loop; it passed the row of batch
\* 0, Completed with one record by the first run, and has itself saved
\* batch 1 as Completed.
C21_Witness ==
    /\ runs = 2
    /\ LoopUsedUp
    /\ total_batches = 2
    /\ outcome[0] = "none"
    /\ SavedRow(0) = Row(0, "Completed", 1, EmptyCell)
    /\ outcome[1] = "fetched"
    /\ SavedRow(1).Status = "Completed"

\* A step of the process itself: a statement of main() is executed, a remote
\* call returning or raising included.
Step ==
    \/ CountRaises
    \/ \E c \in 0 .. MaxRows, no_summary \in BOOLEAN : CountReturns(c, no_summary)
    \/ SampleRaises
    \/ \E nonEmpty \in BOOLEAN : SampleReturns(nonEmpty)
    \/ LoadOrCreateProgress
    \/ EnsureMainFile
    \/ LoopDone
    \/ LoopPastLastRow
    \/ LoopSkip
    \/ LoopProcess
    \/ FetchRaises
    \/ \E n \in 0 .. chunk_size : FetchReturns(n)
    \/ SaveError
    \/ WriteTemp
    \/ AppendBatchToMain
    \/ SaveCompleted
    \/ \E kept \in BOOLEAN : UnlinkTemp(kept)

\* The largest --retries tried, and the most statements one row can take:
\* the loop head, the fetch attempts, and the five statements after them.
MostRetries == CHOOSE m \in RetriesTried : \A r \in RetriesTried : r <= m
RowCost == MostRetries + 6

\* How far the statement at pc is from the end of its row's processing.
Rank ==
    CASE pc = "loop" -> RowCost
      [] pc = "fetch" -> 5 + (MostRetries - attempt)
      [] pc = "temp" -> 4
      [] pc = "append" -> 3
      [] pc = "save" -> 2
      [] pc \in {"unlink", "markError"} -> 1
      [] OTHER -> 0

\* An upper bound on the steps the run can still take.
StepsLeft ==
    LET whole == (MaxRows + 2) * RowCost
    IN  CASE pc = "count" -> whole + 2 * MostRetries + 4 - attempt
          [] pc = "summary" -> whole + MostRetries + 3 - attempt
          [] pc = "load" -> whole + 2
          [] pc = "ensure" -> whole + 1
          [] pc \in InLoop -> (total_batches + 1 - rowIdx) * RowCost + Rank
          [] OTHER -> 0

\* C22: a running process can always take a step, and every step it takes
\* either ends the run or lowers a bound on the steps left, so every run
\* ends; the count, the sample and the fetch of one batch are each attempted
\* at most retries times, the run ending as aborted exactly after the
\* retries-th failed count; a fetch begins only for a batch with no outcome
\* in this run.
C22_Termination ==
    /\ [](pc \in Running => ENABLED Step)
    /\ [](pc \in Running => StepsLeft > 0)
    /\ [][(pc \in Running /\ pc' \in Running) => StepsLeft' < StepsLeft]_vars
    /\ [][(pc \in Running /\ pc' \notin Running) => pc' \in Ended]_vars
    /\ [](pc \in {"count", "summary", "fetch"} => attempt < args.retries)
    /\ [][(pc \in {"count", "summary", "fetch"} /\ pc' = pc) =>
            (attempt' = attempt + 1)]_vars
    /\ [][(pc = "loop" /\ pc' = "fetch") =>
            (attempt' = 0 /\ outcome[BatchNum] = "none")]_vars
    /\ [][(pc \in (InLoop \ {"loop"}) /\ pc' = "loop") =>
            (rowIdx' = rowIdx + 1 /\ outcome[BatchNum] \in {"failed", "fetched"})]_vars

\* C22 witness: a run with retries=3 that wrote no summary is at the end of
\* its loop after the fetch of batch 0 failed three times and the fetch of
\* batch 1 succeeded.
C22_Witness ==
    /\ LoopUsedUp
    /\ args.retries = 3
    /\ total_batches = 2
    /\ outcome[0] = "failed"
    /\ outcome[1] = "fetched"
    /\ ~summary_xlsx

\* Runs under any dataset id and on any date, each with --no-summary and
\* --retries 1 and without --keep-temp, none of them disturbed by a kill or
\* an I/O exception; a fetch that returns, returns a full page.
NextDated ==
    \/ \E k \in Keys : StartOn(NoArgs, k)
    \/ CountRaises
    \/ \E c \in 0 .. MaxRows : CountReturns(c, TRUE)
    \/ LoadOrCreateProgress
    \/ EnsureMainFile
    \/ LoopDone
    \/ LoopPastLastRow
    \/ LoopSkip
    \/ LoopProcess
    \/ FetchRaises
    \/ FetchReturns(chunk_size)
    \/ SaveError
    \/ WriteTemp
    \/ AppendBatchToMain
    \/ SaveCompleted
    \/ UnlinkTemp(FALSE)

SpecDated == Init /\ [][NextDated]_vars

\* A step that starts a run; StartsOnNewDate: on a later date than the run
\* before it.
Starts == pc \in Ended /\ pc' = "count"
StartsOnNewDate == Starts /\ key'.date # key.date

\* C23: the files a run works on are those named after its dataset id and
\* its date. No step changes a file named after another dataset id or date,
\* and a start changes no file at all; a run started on another date than
\* the run before finds neither a ledger nor an Output Stream; a run that
\* found no ledger has, once past the load, a saved ledger of total_batches
\* rows numbered from 0, all Pending with length 0, enters the loop with an
\* empty Output Stream, skips no row, and has at the end of its loop
\* attempted the fetch of every batch.
C23_KeyedResume ==
    /\ [][\A n \in AllNames : (n \notin NamesOf(key') \/ Starts) =>
            Files'[n] = Files[n]]_vars
    /\ [][StartsOnNewDate =>
            /\ fresh'
            /\ ~progress_xlsx'.exists
            /\ ~json_filename'.exists]_vars
    /\ [][(Starts /\ Files[ProgressName(key')].exists) => ~fresh']_vars
    /\ []((fresh /\ pc = "ensure") =>
            /\ progress_xlsx.exists
            /\ Len(progress_xlsx.data) = total_batches
            /\ Len(ws) = total_batches
            /\ \A i \in 1 .. total_batches :
                  /\ progress_xlsx.data[i].Batch = i - 1
                  /\ progress_xlsx.data[i].Status = "Pending"
                  /\ progress_xlsx.data[i].Length = 0
                  /\ ws[i].Status = "Pending")
    /\ []((fresh /\ pc = "loop" /\ rowIdx = 1) => json_filename = File(<<>>))
    /\ [][(fresh /\ pc = "loop" /\ rowIdx <= total_batches) =>
            (pc' = "fetch" /\ BatchNum' = rowIdx - 1)]_vars
    /\ []((fresh /\ LoopUsedUp) =>
            \A b \in BatchIds : b < total_batches =>
                outcome[b] \in {"failed", "fetched"})

\* C23 witness: a run on the second date is at the end of its loop, having
\* found no ledger and fetched both batches, while the ledger of the same
\* dataset id and the first date has its two rows Completed and the output
\* of that date has its records.
C23_Witness ==
    /\ key.date = 2
    /\ fresh
    /\ LoopUsedUp
    /\ total_batches = 2
    /\ outcome[0] = "fetched"
    /\ outcome[1] = "fetched"
    /\ \E k \in Keys :
          /\ k.dataset = key.dataset
          /\ k.date = 1
          /\ AllCompleted(Files[ProgressName(k)])
          /\ Len(Files[ProgressName(k)].data) = 2
          /\ Files[JsonName(k)].exists
          /\ Files[JsonName(k)].data # <<>>
====
